---- MODULE Spec2Model ----
(***************************************************************************)
(* Model of gheap<Fanout, PageChunks> (gheap_cpp11.hpp): the index mapper, *)
(* the sift engine, the heap algorithms and the n-way merge.               *)
(*                                                                         *)
(* A C++ range [first, last) is modelled by a sequence `first` together    *)
(* with heap_size = last - first; the C++ index i is the TLA+ position     *)
(* i + 1.  Slots at and beyond heap_size belong to the caller's array and  *)
(* are carried along, so that writes outside the range would show.         *)
(***************************************************************************)
EXTENDS Integers, Sequences, FiniteSets, TLC

VARIABLES
    Fanout,      \* template parameter Fanout
    PageChunks,  \* template parameter PageChunks
    cmp,         \* the caller's LessComparer
    a,           \* the caller's array of items
    pre,         \* the array handed to the last operation
    old,         \* the array before the caller changed a key (restore_*)
    op,          \* the last operation applied
    idx,         \* the item index given to the last operation
    queue,       \* reference priority queue (priority queue simulation)
    popped,      \* value taken from the array by the last pop
    refPopped,   \* value the reference priority queue gave for that pop
    inputs,      \* memory holding the sorted input sequences of nway_merge
    ranges,      \* the array of input range descriptors (iterator pairs)
    ranges0,     \* the descriptors as they were when nway_merge was called
    result,      \* what nway_merge wrote through the output iterator
    ret,         \* the values returned by the calls made so far
    viaPop,      \* a copy of the caller's heap, emptied by pop_heap
    compared,    \* the pairs the comparer of nway_merge was last called with
    frame        \* the locals of the call in progress, and where it stands

vars == <<Fanout, PageChunks, cmp, a, pre, old, op, idx,
          queue, popped, refPopped, inputs, ranges, ranges0, result,
          ret, viaPop, compared, frame>>

----------------------------------------------------------------------------
(* Bounds of the model *)

\* longest array handed to the heap algorithms
MaxLen == 6
\* items are the integers 0 .. MaxVal
MaxVal == 1
\* width of size_t in bits
SizeBits == 8
\* most items in all the input ranges of one nway_merge together
MaxMergeItems == 4
\* most calls of is_heap_until or is_heap on one array
MaxCalls == 2
\* length of the long arrays, which reach beyond the first pages
LongLen == 13
\* longest array of the callers whose every run is followed to its end
MaxRunLen == 3

Val == 0 .. MaxVal

SIZE_MAX == 2 ^ SizeBits - 1

\* unsigned arithmetic of size_t
Wrap(x) == x % (SIZE_MAX + 1)

\* state of a slot whose value has been moved out (std::move)
Hole == -1

Fanouts == {2, 3, 4, 8}
PageChunkss == {1, 2, 4}
Comparers == {[kind |-> "less"], [kind |-> "greater"], [kind |-> "key_less"]}

\* first[i] for a C++ index i
Get(first, i) == first[i + 1]

\* first[i] = v
Put(first, i, v) == [first EXCEPT ![i + 1] = v]

----------------------------------------------------------------------------
(* Comparators *)

\* *(it) for an input iterator into the memory of nway_merge
Deref(it) == inputs[it[1]][it[2]]

_std_less_comparer(x, y) == x < y

\* A LessComparer object c applied to x and y.  c.kind names the caller's
\* comparer: operator<, its reverse, or "key_less", which orders the items
\* by x \div 2 only, so that different items can rank equal.  The kind
\* "nway_merge" is _nway_merge_less_comparer holding c.inner: it compares
\* two range descriptors by their front items, reversed.
RECURSIVE less_comparer(_, _, _)
\* faulty variant of less_comparer: the merge comparer does not reverse the
\* order of the front items
less_comparer_unreversed(c, x, y) ==
    CASE c.kind = "less" -> _std_less_comparer(x, y)
      [] c.kind = "greater" -> _std_less_comparer(y, x)
      [] c.kind = "key_less" -> _std_less_comparer(x \div 2, y \div 2)
      [] c.kind = "nway_merge" ->
            CASE c.inner.kind = "less" ->
                    _std_less_comparer(Deref(x.first), Deref(y.first))
              [] c.inner.kind = "greater" ->
                    _std_less_comparer(Deref(y.first), Deref(x.first))
              [] c.inner.kind = "key_less" ->
                    _std_less_comparer(Deref(x.first) \div 2,
                                       Deref(y.first) \div 2)

less_comparer(c, x, y) ==
    CASE c.kind = "less" -> _std_less_comparer(x, y)
      [] c.kind = "greater" -> _std_less_comparer(y, x)
      [] c.kind = "key_less" -> _std_less_comparer(x \div 2, y \div 2)
      [] c.kind = "nway_merge" ->
            less_comparer(c.inner, Deref(y.first), Deref(x.first))

\* the constructor of _nway_merge_less_comparer
_nway_merge_less_comparer(c) == [kind |-> "nway_merge", inner |-> c]

----------------------------------------------------------------------------
(* Index mapper *)

\* faulty variant of get_parent_index: the first items of a page are taken
\* to have their parent in the same page
get_parent_index_same_page(u0) ==
    LET u == Wrap(u0 - 1) IN
    IF PageChunks = 1 THEN u \div Fanout
    ELSE IF u < Fanout THEN 0
    ELSE
      LET page_size == Wrap(Fanout * PageChunks)
          v == u % page_size
      IN  Wrap(u - v + (v \div Fanout))

get_parent_index(u0) ==
    LET u == Wrap(u0 - 1) IN
    IF PageChunks = 1 THEN u \div Fanout
    ELSE IF u < Fanout THEN 0
    ELSE
      LET page_size == Wrap(Fanout * PageChunks)
          v == u % page_size
      IN  IF v >= Fanout THEN Wrap(u - v + (v \div Fanout))
          ELSE
            LET v2 == Wrap((u \div page_size) - 1)
                page_leaves == Wrap((Fanout - 1) * PageChunks + 1)
                u2 == Wrap((v2 \div page_leaves) + 1)
            IN  Wrap(u2 * page_size + (v2 % page_leaves) - page_leaves + 1)

\* faulty variant of get_child_index: in the paged layout a child in the
\* page of its parent is placed one slot too low
get_child_index_one_low(u0) ==
    IF PageChunks = 1
    THEN IF u0 > (SIZE_MAX - 1) \div Fanout THEN SIZE_MAX
         ELSE Wrap(u0 * Fanout + 1)
    ELSE IF u0 = 0 THEN 1
    ELSE
      LET page_size == Wrap(Fanout * PageChunks)
          u == Wrap(u0 - 1)
          v == Wrap((u % page_size) + 1)
      IN  IF v < page_size \div Fanout
          THEN LET v2 == Wrap(v * (Fanout - 1))
               IN  IF u > Wrap(SIZE_MAX - 2 - v2) THEN SIZE_MAX
                   ELSE Wrap(u + v2 + 1)
          ELSE
            LET page_leaves == Wrap((Fanout - 1) * PageChunks + 1)
                v3 == Wrap(v + ((u \div page_size) + 1) * page_leaves - page_size)
            IN  IF v3 > (SIZE_MAX - 1) \div page_size THEN SIZE_MAX
                ELSE Wrap(v3 * page_size + 1)

\* faulty variant of get_child_index: the flat layout does not look for
\* overflow, so the product wraps around
get_child_index_unchecked(u0) ==
    IF PageChunks = 1
    THEN Wrap(u0 * Fanout + 1)
    ELSE IF u0 = 0 THEN 1
    ELSE
      LET page_size == Wrap(Fanout * PageChunks)
          u == Wrap(u0 - 1)
          v == Wrap((u % page_size) + 1)
      IN  IF v < page_size \div Fanout
          THEN LET v2 == Wrap(v * (Fanout - 1))
               IN  IF u > Wrap(SIZE_MAX - 2 - v2) THEN SIZE_MAX
                   ELSE Wrap(u + v2 + 2)
          ELSE
            LET page_leaves == Wrap((Fanout - 1) * PageChunks + 1)
                v3 == Wrap(v + ((u \div page_size) + 1) * page_leaves - page_size)
            IN  IF v3 > (SIZE_MAX - 1) \div page_size THEN SIZE_MAX
                ELSE Wrap(v3 * page_size + 1)

get_child_index(u0) ==
    IF PageChunks = 1
    THEN IF u0 > (SIZE_MAX - 1) \div Fanout THEN SIZE_MAX
         ELSE Wrap(u0 * Fanout + 1)
    ELSE IF u0 = 0 THEN 1
    ELSE
      LET page_size == Wrap(Fanout * PageChunks)
          u == Wrap(u0 - 1)
          v == Wrap((u % page_size) + 1)
      IN  IF v < page_size \div Fanout
          THEN LET v2 == Wrap(v * (Fanout - 1))
               IN  IF u > Wrap(SIZE_MAX - 2 - v2) THEN SIZE_MAX
                   ELSE Wrap(u + v2 + 2)
          ELSE
            LET page_leaves == Wrap((Fanout - 1) * PageChunks + 1)
                v3 == Wrap(v + ((u \div page_size) + 1) * page_leaves - page_size)
            IN  IF v3 > (SIZE_MAX - 1) \div page_size THEN SIZE_MAX
                ELSE Wrap(v3 * page_size + 1)

----------------------------------------------------------------------------
(* Sift engine.  The callers move the item out of first[hole_index] before *)
(* the call, so the slot at hole_index is a Hole on entry.                 *)

\* faulty variant of _move: the item is copied, the source slot keeps it
_move_copy(first, dst, src) == Put(first, dst, Get(first, src))

\* _move(first[dst], first[src]): the source slot is left moved-from
_move(first, dst, src) == Put(Put(first, dst, Get(first, src)), src, Hole)

RECURSIVE _sift_up(_, _, _, _, _)
\* faulty variant of _sift_up: the loop stops one level below root_index
RECURSIVE _sift_up_stops_early(_, _, _, _, _)
_sift_up_stops_early(first, c, root_index, hole_index, item) ==
    IF hole_index > root_index + 1
    THEN LET parent_index == get_parent_index(hole_index)
             parent == Get(first, parent_index)
         IN  IF ~less_comparer(c, parent, item)
             THEN Put(first, hole_index, item)
             ELSE _sift_up_stops_early(_move(first, hole_index, parent_index),
                                       c, root_index, parent_index, item)
    ELSE Put(first, hole_index, item)

_sift_up(first, c, root_index, hole_index, item) ==
    IF hole_index > root_index
    THEN LET parent_index == get_parent_index(hole_index)
             parent == Get(first, parent_index)
         IN  IF ~less_comparer(c, parent, item)
             THEN Put(first, hole_index, item)
             ELSE _sift_up(_move(first, hole_index, parent_index), c,
                           root_index, parent_index, item)
    ELSE Put(first, hole_index, item)

\* the loop of _move_up_max_child: j after the iterations i, i+1, ...
RECURSIVE max_child_scan(_, _, _, _, _, _)
max_child_scan(first, c, children_count, child_index, i, j) ==
    IF i < children_count
    THEN IF ~less_comparer(c, Get(first, child_index + i),
                              Get(first, child_index + j))
         THEN max_child_scan(first, c, children_count, child_index, i + 1, i)
         ELSE max_child_scan(first, c, children_count, child_index, i + 1, j)
    ELSE j

\* the loop of _move_up_earliest_max_child
RECURSIVE earliest_max_child_scan(_, _, _, _, _, _)
earliest_max_child_scan(first, c, children_count, child_index, i, j) ==
    IF i < children_count
    THEN IF less_comparer(c, Get(first, child_index + j),
                             Get(first, child_index + i))
         THEN earliest_max_child_scan(first, c, children_count, child_index,
                                      i + 1, i)
         ELSE earliest_max_child_scan(first, c, children_count, child_index,
                                      i + 1, j)
    ELSE j

\* faulty variant of _move_up_max_child: a later child replaces the
\* greatest so far only when it ranks above it
_move_up_earliest_max_child(first, c, children_count, hole_index, child_index) ==
    LET j == earliest_max_child_scan(first, c, children_count, child_index,
                                     1, 0)
    IN  [first |-> _move(first, hole_index, child_index + j),
         hole_index |-> child_index + j]

\* faulty variant of _move_up_max_child: the first child is moved up,
\* whatever the other children hold
_move_up_first_child(first, c, children_count, hole_index, child_index) ==
    [first |-> _move(first, hole_index, child_index),
     hole_index |-> child_index]

\* returns the array and the index of the new hole
_move_up_max_child(first, c, children_count, hole_index, child_index) ==
    LET j == max_child_scan(first, c, children_count, child_index, 1, 0)
    IN  [first |-> _move(first, hole_index, child_index + j),
         hole_index |-> child_index + j]

\* the while (true) loop of _sift_down
RECURSIVE sift_down_loop(_, _, _, _)
sift_down_loop(first, c, heap_size, hole_index) ==
    LET remaining_items == (heap_size - 1) % Fanout
        child_index == get_child_index(hole_index)
    IN  IF child_index >= Wrap(heap_size - remaining_items)
        THEN IF child_index < heap_size
             THEN _move_up_max_child(first, c, remaining_items,
                                     hole_index, child_index)
             ELSE [first |-> first, hole_index |-> hole_index]
        ELSE LET r == _move_up_max_child(first, c, Fanout,
                                         hole_index, child_index)
             IN  sift_down_loop(r.first, c, heap_size, r.hole_index)

_sift_down(first, c, heap_size, hole_index, item) ==
    LET root_index == hole_index
        r == sift_down_loop(first, c, heap_size, hole_index)
    IN  _sift_up(r.first, c, root_index, r.hole_index, item)

\* faulty variant of _pop_heap: the item is sifted down in a heap that
\* still includes the last slot
_pop_heap_whole_range(first, c, heap_size) ==
    LET hole_index == heap_size - 1
        item == Get(first, hole_index)
    IN  _sift_down(_move(first, hole_index, 0), c, heap_size, 0, item)

_pop_heap(first, c, heap_size) ==
    LET hole_index == heap_size - 1
        item == Get(first, hole_index)
    IN  _sift_down(_move(first, hole_index, 0), c, hole_index, 0, item)

----------------------------------------------------------------------------
(* Heap algorithms *)

RECURSIVE is_heap_until_loop(_, _, _, _)
is_heap_until_loop(first, c, heap_size, u) ==
    IF u < heap_size
    THEN IF less_comparer(c, Get(first, get_parent_index(u)), Get(first, u))
         THEN u
         ELSE is_heap_until_loop(first, c, heap_size, u + 1)
    ELSE heap_size

\* faulty variant of is_heap_until: the scan leaves out index 1
is_heap_until_from_two(first, c, heap_size) ==
    is_heap_until_loop(first, c, heap_size, 2)

\* returns last - first when the range is a heap
is_heap_until(first, c, heap_size) == is_heap_until_loop(first, c, heap_size, 1)

is_heap(first, c, heap_size) == is_heap_until(first, c, heap_size) = heap_size

\* the do ... while (i-- > 0) loop of make_heap
RECURSIVE make_heap_loop(_, _, _, _)
make_heap_loop(first, c, heap_size, i) ==
    LET item == Get(first, i)
        f == _sift_down(Put(first, i, Hole), c, heap_size, i, item)
    IN  IF i > 0 THEN make_heap_loop(f, c, heap_size, i - 1) ELSE f

\* faulty variant of make_heap: a range of two items is left as it is
make_heap_from_three(first, c, heap_size) ==
    IF heap_size > 2
    THEN make_heap_loop(first, c, heap_size,
                        IF PageChunks = 1 THEN (heap_size - 2) \div Fanout
                        ELSE heap_size - 2)
    ELSE first

make_heap(first, c, heap_size) ==
    IF heap_size > 1
    THEN make_heap_loop(first, c, heap_size,
                        IF PageChunks = 1 THEN (heap_size - 2) \div Fanout
                        ELSE heap_size - 2)
    ELSE first

\* faulty variant of push_heap: the new item never replaces the root
push_heap_below_root(first, c, heap_size) ==
    IF heap_size > 1
    THEN LET u == heap_size - 1
             item == Get(first, u)
         IN  _sift_up(Put(first, u, Hole), c, 1, u, item)
    ELSE first

push_heap(first, c, heap_size) ==
    IF heap_size > 1
    THEN LET u == heap_size - 1
             item == Get(first, u)
         IN  _sift_up(Put(first, u, Hole), c, 0, u, item)
    ELSE first

\* faulty variant of pop_heap: a heap of two items is left as it is
pop_heap_from_three(first, c, heap_size) ==
    IF heap_size > 2 THEN _pop_heap(first, c, heap_size) ELSE first

pop_heap(first, c, heap_size) ==
    IF heap_size > 1 THEN _pop_heap(first, c, heap_size) ELSE first

RECURSIVE sort_heap_loop(_, _, _)
sort_heap_loop(first, c, i) ==
    IF i > 1 THEN sort_heap_loop(_pop_heap(first, c, i), c, i - 1) ELSE first

\* faulty variant of sort_heap: the first pop is left out
sort_heap_short(first, c, heap_size) == sort_heap_loop(first, c, heap_size - 1)

sort_heap(first, c, heap_size) == sort_heap_loop(first, c, heap_size)

restore_heap_after_item_increase(first, c, hole_index) ==
    IF hole_index > 0
    THEN LET tmp == Get(first, hole_index)
         IN  _sift_up(Put(first, hole_index, Hole), c, 0, hole_index, tmp)
    ELSE first

\* faulty variant of restore_heap_after_item_decrease: the range is left
\* as it is
restore_heap_after_item_decrease_skipped(first, c, hole_index, heap_size) ==
    first

\* faulty variant of restore_heap_after_item_decrease: the item is sifted
\* up, as after an increase
restore_heap_after_item_decrease_up(first, c, hole_index, heap_size) ==
    LET tmp == Get(first, hole_index)
    IN  _sift_up(Put(first, hole_index, Hole), c, 0, hole_index, tmp)

restore_heap_after_item_decrease(first, c, hole_index, heap_size) ==
    LET tmp == Get(first, hole_index)
    IN  _sift_down(Put(first, hole_index, Hole), c, heap_size, hole_index, tmp)

\* faulty variant of remove_from_heap: the former last item is always
\* sifted down
remove_from_heap_down_only(first, c, hole_index, heap_size) ==
    LET new_heap_size == heap_size - 1 IN
    IF hole_index < new_heap_size
    THEN LET tmp == Get(first, new_heap_size)
             f == _move(first, new_heap_size, hole_index)
         IN  _sift_down(f, c, new_heap_size, hole_index, tmp)
    ELSE first

remove_from_heap(first, c, hole_index, heap_size) ==
    LET new_heap_size == heap_size - 1 IN
    IF hole_index < new_heap_size
    THEN LET tmp == Get(first, new_heap_size)
             f == _move(first, new_heap_size, hole_index)
         IN  IF less_comparer(c, tmp, Get(f, new_heap_size))
             THEN _sift_down(f, c, new_heap_size, hole_index, tmp)
             ELSE _sift_up(f, c, 0, hole_index, tmp)
    ELSE first

----------------------------------------------------------------------------
(* N-way merge.  An input iterator is <<r, p>>: position p of inputs[r];   *)
(* a range descriptor is the pair [first |-> begin, second |-> end].       *)

\* ++it
Advance(it) == <<it[1], it[2] + 1>>

\* faulty variant of Swap: first[j] is copied to first[i] only
SwapCopyOnly(first, i, j) == Put(first, i, Get(first, j))

\* std::swap(first[i], first[j])
Swap(first, i, j) == Put(Put(first, i, Get(first, j)), j, Get(first, i))

\* the while (true) loop of nway_merge; last is last - first
RECURSIVE nway_merge_loop(_, _, _, _)
nway_merge_loop(first, less, last, output) ==
    LET input_range == Get(first, 0)
        output1 == Append(output, Deref(input_range.first))
        advanced == [input_range EXCEPT !.first = Advance(input_range.first)]
        first1 == Put(first, 0, advanced)
    IN  IF advanced.first = advanced.second
        THEN LET last1 == last - 1
             IN  IF last1 = 0
                 THEN [ranges |-> first1, output |-> output1]
                 ELSE nway_merge_loop(
                        restore_heap_after_item_decrease(
                            Swap(first1, 0, last1), less, 0, last1),
                        less, last1, output1)
        ELSE nway_merge_loop(
                restore_heap_after_item_decrease(first1, less, 0, last),
                less, last, output1)

\* returns the descriptors and the items written to the output
nway_merge(input_ranges, c, count) ==
    LET less == _nway_merge_less_comparer(c)
    IN  nway_merge_loop(make_heap(input_ranges, less, count), less, count, <<>>)

----------------------------------------------------------------------------
(* The caller of the heap algorithms.  One operation is applied to the     *)
(* whole array a, when the assertions at its entry hold; op tells which.   *)

\* the arrays a caller can hold
Arrays == UNION {[1 .. n -> Val] : n \in 0 .. MaxLen}

NoMerge ==
    /\ inputs = <<>> /\ ranges = <<>> /\ ranges0 = <<>> /\ result = <<>>

NoQueue == queue = <<>> /\ popped = Hole /\ refPopped = Hole

Layout == Fanout \in Fanouts /\ PageChunks \in PageChunkss

\* no call in progress; the fields are the locals of the sift engine and
\* of the loops that call it
Idle ==
    [pc |-> "idle", root_index |-> 0, hole_index |-> 0, heap_size |-> 0,
     item |-> Hole, i |-> 0, last |-> 0]

NoCall == ret = <<>> /\ viaPop = <<>> /\ compared = {} /\ frame = Idle

Init ==
    /\ Layout
    /\ cmp \in Comparers
    /\ a \in Arrays
    /\ pre = a /\ old = a /\ op = "init" /\ idx = 0
    /\ NoQueue /\ NoMerge /\ NoCall

Fixed == UNCHANGED <<Fanout, PageChunks, cmp, queue, popped, refPopped,
                     inputs, ranges, ranges0, result, ret, viaPop,
        compared, frame>>

MakeHeap ==
    /\ op = "init"
    /\ a' = make_heap(a, cmp, Len(a))
    /\ pre' = a /\ old' = a /\ op' = "make_heap" /\ idx' = 0
    /\ Fixed

PushHeap ==
    /\ op = "init"
    /\ Len(a) > 0
    /\ is_heap(a, cmp, Len(a) - 1)
    /\ a' = push_heap(a, cmp, Len(a))
    /\ pre' = a /\ old' = a /\ op' = "push_heap" /\ idx' = 0
    /\ Fixed

PopHeap ==
    /\ op = "init"
    /\ Len(a) > 0
    /\ is_heap(a, cmp, Len(a))
    /\ a' = pop_heap(a, cmp, Len(a))
    /\ pre' = a /\ old' = a /\ op' = "pop_heap" /\ idx' = 0
    /\ Fixed

SortHeap ==
    /\ op = "init"
    /\ is_heap(a, cmp, Len(a))
    /\ a' = sort_heap(a, cmp, Len(a))
    /\ pre' = a /\ old' = a /\ op' = "sort_heap" /\ idx' = 0
    /\ Fixed

\* make_heap, then sort_heap on its result
MakeThenSortHeap ==
    /\ op = "init"
    /\ a' = sort_heap(make_heap(a, cmp, Len(a)), cmp, Len(a))
    /\ pre' = a /\ old' = a /\ op' = "make_heap;sort_heap" /\ idx' = 0
    /\ Fixed

RemoveFromHeap ==
    \E item \in 0 .. Len(a) - 1 :
        /\ op = "init"
        /\ is_heap(a, cmp, Len(a))
        /\ a' = remove_from_heap(a, cmp, item, Len(a))
        /\ pre' = a /\ old' = a /\ op' = "remove_from_heap" /\ idx' = item
        /\ Fixed

\* the caller raises the key of one item, then calls the restore operation
RestoreIncrease ==
    \E item \in 0 .. Len(a) - 1 : \E v \in Val :
        LET changed == Put(a, item, v) IN
        /\ op = "init"
        /\ less_comparer(cmp, Get(a, item), v)
        /\ is_heap(changed, cmp, item)
        /\ a' = restore_heap_after_item_increase(changed, cmp, item)
        /\ pre' = changed /\ old' = a
        /\ op' = "restore_heap_after_item_increase" /\ idx' = item
        /\ Fixed

\* the caller lowers the key of one item, then calls the restore operation
RestoreDecrease ==
    \E item \in 0 .. Len(a) - 1 : \E v \in Val :
        LET changed == Put(a, item, v) IN
        /\ op = "init"
        /\ less_comparer(cmp, v, Get(a, item))
        /\ is_heap(changed, cmp, item)
        /\ a' = restore_heap_after_item_decrease(changed, cmp, item, Len(a))
        /\ pre' = changed /\ old' = a
        /\ op' = "restore_heap_after_item_decrease" /\ idx' = item
        /\ Fixed

Next ==
    \/ MakeHeap
    \/ PushHeap
    \/ PopHeap
    \/ SortHeap
    \/ MakeThenSortHeap
    \/ RemoveFromHeap

Spec == Init /\ [][Next]_vars

\* the caller that changes one key and restores the heap
NextRestore == RestoreIncrease \/ RestoreDecrease

SpecRestore == Init /\ [][NextRestore]_vars

----------------------------------------------------------------------------
(* Priority queue simulation: the array is used as a priority queue, next  *)
(* to a reference max-priority queue that holds a count for every item.    *)
(* Which of several items of equal rank the reference gives is left open   *)
(* by its contract; it gives the item asked for when that is a maximum.    *)

\* the items no item of the reference queue ranks above
RefMaxima(q, c) ==
    {x \in Val : q[x] > 0 /\ \A y \in Val : q[y] > 0 => ~less_comparer(c, x, y)}

RefTop(q, c, wanted) ==
    IF wanted \in RefMaxima(q, c) THEN wanted
    ELSE CHOOSE x \in RefMaxima(q, c) : TRUE

InitPQ ==
    /\ Layout
    /\ cmp \in Comparers
    /\ a = <<>> /\ pre = <<>> /\ old = <<>> /\ op = "init" /\ idx = 0
    /\ queue = [x \in Val |-> 0] /\ popped = Hole /\ refPopped = Hole
    /\ NoMerge /\ NoCall

FixedPQ == UNCHANGED <<Fanout, PageChunks, cmp, old, idx,
                       inputs, ranges, ranges0, result, ret, viaPop,
        compared, frame>>

\* append v, then push_heap over the whole array
Push ==
    \E v \in Val :
        /\ Len(a) < MaxLen
        /\ a' = push_heap(Append(a, v), cmp, Len(a) + 1)
        /\ pre' = Append(a, v) /\ op' = "push_heap"
        /\ queue' = [queue EXCEPT ![v] = @ + 1]
        /\ UNCHANGED <<popped, refPopped>>
        /\ FixedPQ

\* pop_heap over the whole array, then take and drop the last item
Pop ==
    /\ Len(a) > 0
    /\ LET b == pop_heap(a, cmp, Len(a))
           top == RefTop(queue, cmp, b[Len(a)])
       IN  /\ popped' = b[Len(a)]
           /\ a' = SubSeq(b, 1, Len(a) - 1)
           /\ refPopped' = top
           /\ queue' = [queue EXCEPT ![top] = @ - 1]
    /\ pre' = a /\ op' = "pop_heap"
    /\ FixedPQ

NextPQ == Push \/ Pop

SpecPQ == InitPQ /\ [][NextPQ]_vars

----------------------------------------------------------------------------
(* The caller of nway_merge *)

\* the ascending sequences of m items
SortedSeqs(c, m) ==
    {s \in [1 .. m -> Val] :
        \A i \in 1 .. m - 1 : ~less_comparer(c, s[i + 1], s[i])}

\* the lists of non-empty ascending sequences holding at most t items
RECURSIVE MergeInputs(_, _)
MergeInputs(c, t) ==
    {<<>>} \cup
    UNION {{<<r>> \o rest : r \in SortedSeqs(c, m),
                            rest \in MergeInputs(c, t - m)} : m \in 1 .. t}

\* the descriptor of the whole of inputs[r]
WholeRange(r) == [first |-> <<r, 1>>, second |-> <<r, Len(inputs[r]) + 1>>]

InitMerge ==
    /\ Layout
    /\ cmp \in Comparers
    /\ inputs \in MergeInputs(cmp, MaxMergeItems) \ {<<>>}
    /\ ranges = [r \in 1 .. Len(inputs) |-> WholeRange(r)]
    /\ ranges0 = ranges /\ result = <<>>
    /\ a = <<>> /\ pre = <<>> /\ old = <<>> /\ op = "init" /\ idx = 0
    /\ NoQueue /\ NoCall

NwayMerge ==
    /\ op = "init"
    /\ LET r == nway_merge(ranges, cmp, Len(ranges))
       IN  ranges' = r.ranges /\ result' = r.output
    /\ ranges0' = ranges /\ op' = "nway_merge"
    /\ UNCHANGED <<Fanout, PageChunks, cmp, a, pre, old, idx,
                   queue, popped, refPopped, inputs, ret, viaPop,
        compared, frame>>

NextMerge == NwayMerge

SpecMerge == InitMerge /\ [][NextMerge]_vars

----------------------------------------------------------------------------
(* The heap operations step by step.  A step is one std::move or _move of  *)
(* an item together with the tests that lead to it: the entry of an        *)
(* operation up to the move of an item into its local, one turn of a loop  *)
(* of the sift engine, the move that ends _sift_up, the return to the      *)
(* caller.  frame holds the locals; frame.pc names the function whose      *)
(* next statement is to run; frame.item is the local that holds an item    *)
(* (item or tmp in the source), Hole when it holds none.                   *)

\* the locals of a call that holds an item
Running(pc, root_index, hole_index, heap_size, item, i) ==
    [pc |-> pc, root_index |-> root_index, hole_index |-> hole_index,
     heap_size |-> heap_size, item |-> item, i |-> i, last |-> 0]

\* the operation has returned
Done == [Idle EXCEPT !.pc = "done"]

FixedSteps == UNCHANGED <<Fanout, PageChunks, cmp, queue, popped, refPopped,
                          inputs, ranges, ranges0, result, ret, viaPop,
        compared>>

\* no operation has been called
NotCalled == op = "init" /\ frame.pc = "idle"

\* the caller's variables when it calls operation name on s with item
Calls(name, s, item) ==
    /\ op' = name /\ pre' = s /\ idx' = item
    /\ FixedSteps

\* make_heap up to the first std::move(first[i])
CallMakeHeap ==
    /\ NotCalled
    /\ Calls("make_heap", a, 0) /\ old' = a
    /\ LET heap_size == Len(a) IN
       IF heap_size > 1
       THEN LET i == IF PageChunks = 1 THEN (heap_size - 2) \div Fanout
                     ELSE heap_size - 2
            IN  /\ a' = Put(a, i, Hole)
                /\ frame' = Running("_sift_down", i, i, heap_size,
                                    Get(a, i), i)
       ELSE a' = a /\ frame' = Done

\* while (i-- > 0) of make_heap, and the next std::move(first[i])
MakeHeapLoop ==
    /\ frame.pc = "return" /\ op = "make_heap"
    /\ IF frame.i > 0
       THEN LET i == frame.i - 1
            IN  /\ a' = Put(a, i, Hole)
                /\ frame' = Running("_sift_down", i, i, frame.heap_size,
                                    Get(a, i), i)
       ELSE a' = a /\ frame' = Done
    /\ UNCHANGED <<pre, old, op, idx>>
    /\ FixedSteps

\* push_heap up to std::move(first[u])
CallPushHeap ==
    /\ NotCalled
    /\ Len(a) > 0
    /\ is_heap(a, cmp, Len(a) - 1)
    /\ Calls("push_heap", a, 0) /\ old' = a
    /\ LET heap_size == Len(a) IN
       IF heap_size > 1
       THEN LET u == heap_size - 1
            IN  /\ a' = Put(a, u, Hole)
                /\ frame' = Running("_sift_up", 0, u, heap_size, Get(a, u), 0)
       ELSE a' = a /\ frame' = Done

\* the entry of _pop_heap(first, less_comparer, heap_size) up to
\* std::move(first[hole_index]); i is the loop counter of the caller
EnterPopHeap(heap_size, i) ==
    LET hole_index == heap_size - 1
    IN  /\ a' = Put(a, hole_index, Hole)
        /\ frame' = Running("_pop_heap", 0, hole_index, heap_size,
                            Get(a, hole_index), i)

\* pop_heap up to std::move(first[hole_index]) of _pop_heap
CallPopHeap ==
    /\ NotCalled
    /\ Len(a) > 0
    /\ is_heap(a, cmp, Len(a))
    /\ Calls("pop_heap", a, 0) /\ old' = a
    /\ IF Len(a) > 1 THEN EnterPopHeap(Len(a), 0)
       ELSE a' = a /\ frame' = Done

\* _move(first[hole_index], first[0]) of _pop_heap and the call of
\* _sift_down on the heap without its last slot
PopHeapMove ==
    /\ frame.pc = "_pop_heap"
    /\ a' = _move(a, frame.hole_index, 0)
    /\ frame' = Running("_sift_down", 0, 0, frame.hole_index,
                        frame.item, frame.i)
    /\ UNCHANGED <<pre, old, op, idx>>
    /\ FixedSteps

\* sort_heap up to std::move(first[hole_index]) of the first _pop_heap
CallSortHeap ==
    /\ NotCalled
    /\ is_heap(a, cmp, Len(a))
    /\ Calls("sort_heap", a, 0) /\ old' = a
    /\ IF Len(a) > 1 THEN EnterPopHeap(Len(a), Len(a))
       ELSE a' = a /\ frame' = Done

\* --i and i > 1 of sort_heap, and the entry of the next _pop_heap
SortHeapLoop ==
    /\ frame.pc = "return" /\ op = "sort_heap"
    /\ LET i == frame.i - 1
       IN  IF i > 1 THEN EnterPopHeap(i, i)
           ELSE a' = a /\ frame' = Done
    /\ UNCHANGED <<pre, old, op, idx>>
    /\ FixedSteps

\* the caller raises the key of one item; restore_heap_after_item_increase
\* up to std::move(*item)
CallRestoreIncrease ==
    \E item \in 0 .. Len(a) - 1 : \E v \in Val :
        LET changed == Put(a, item, v) IN
        /\ NotCalled
        /\ less_comparer(cmp, Get(a, item), v)
        /\ is_heap(changed, cmp, item)
        /\ Calls("restore_heap_after_item_increase", changed, item)
        /\ old' = a
        /\ IF item > 0
           THEN /\ a' = Put(changed, item, Hole)
                /\ frame' = Running("_sift_up", 0, item, 0, v, 0)
           ELSE a' = changed /\ frame' = Done

\* the caller lowers the key of one item; restore_heap_after_item_decrease
\* up to std::move(*item)
CallRestoreDecrease ==
    \E item \in 0 .. Len(a) - 1 : \E v \in Val :
        LET changed == Put(a, item, v) IN
        /\ NotCalled
        /\ less_comparer(cmp, v, Get(a, item))
        /\ is_heap(changed, cmp, item)
        /\ Calls("restore_heap_after_item_decrease", changed, item)
        /\ old' = a
        /\ a' = Put(changed, item, Hole)
        /\ frame' = Running("_sift_down", item, item, Len(a), v, 0)

\* remove_from_heap up to std::move(first[new_heap_size])
CallRemoveFromHeap ==
    \E item \in 0 .. Len(a) - 1 :
        LET new_heap_size == Len(a) - 1 IN
        /\ NotCalled
        /\ is_heap(a, cmp, Len(a))
        /\ Calls("remove_from_heap", a, item) /\ old' = a
        /\ IF item < new_heap_size
           THEN /\ a' = Put(a, new_heap_size, Hole)
                /\ frame' = Running("remove_from_heap", 0, item,
                                    new_heap_size, Get(a, new_heap_size), 0)
           ELSE a' = a /\ frame' = Done

\* faulty variant of RemoveFromHeapMove: the test of the two items is
\* turned around
RemoveFromHeapMoveReversed ==
    /\ frame.pc = "remove_from_heap"
    /\ LET new_heap_size == frame.heap_size
           f == _move(a, new_heap_size, frame.hole_index)
       IN  /\ a' = f
           /\ IF less_comparer(cmp, Get(f, new_heap_size), frame.item)
              THEN frame' = [frame EXCEPT !.pc = "_sift_down",
                                          !.root_index = frame.hole_index]
              ELSE frame' = [frame EXCEPT !.pc = "_sift_up",
                                          !.root_index = 0]
    /\ UNCHANGED <<pre, old, op, idx>>
    /\ FixedSteps

\* _move(first[new_heap_size], *item) of remove_from_heap, the test of
\* tmp against the removed item and the call of _sift_down or _sift_up
RemoveFromHeapMove ==
    /\ frame.pc = "remove_from_heap"
    /\ LET new_heap_size == frame.heap_size
           f == _move(a, new_heap_size, frame.hole_index)
       IN  /\ a' = f
           /\ IF less_comparer(cmp, frame.item, Get(f, new_heap_size))
              THEN frame' = [frame EXCEPT !.pc = "_sift_down",
                                          !.root_index = frame.hole_index]
              ELSE frame' = [frame EXCEPT !.pc = "_sift_up",
                                          !.root_index = 0]
    /\ UNCHANGED <<pre, old, op, idx>>
    /\ FixedSteps

\* faulty variant of SiftDownStep: the loop is not left when the hole has
\* no child in the heap
SiftDownStepNoBreak ==
    /\ frame.pc = "_sift_down"
    /\ LET heap_size == frame.heap_size
           hole_index == frame.hole_index
           remaining_items == (heap_size - 1) % Fanout
           child_index == get_child_index(hole_index)
       IN  IF child_index >= Wrap(heap_size - remaining_items)
           THEN IF child_index < heap_size
                THEN LET r == _move_up_max_child(a, cmp, remaining_items,
                                                 hole_index, child_index)
                     IN  /\ a' = r.first
                         /\ frame' = [frame EXCEPT
                                        !.pc = "_sift_up",
                                        !.hole_index = r.hole_index]
                ELSE a' = a /\ frame' = frame
           ELSE LET r == _move_up_max_child(a, cmp, Fanout,
                                            hole_index, child_index)
                IN  /\ a' = r.first
                    /\ frame' = [frame EXCEPT !.hole_index = r.hole_index]
    /\ UNCHANGED <<pre, old, op, idx>>
    /\ FixedSteps

\* one turn of the while (true) loop of _sift_down; when the loop ends,
\* _sift_up is called with the root_index of _sift_down
SiftDownStep ==
    /\ frame.pc = "_sift_down"
    /\ LET heap_size == frame.heap_size
           hole_index == frame.hole_index
           remaining_items == (heap_size - 1) % Fanout
           child_index == get_child_index(hole_index)
       IN  IF child_index >= Wrap(heap_size - remaining_items)
           THEN IF child_index < heap_size
                THEN LET r == _move_up_max_child(a, cmp, remaining_items,
                                                 hole_index, child_index)
                     IN  /\ a' = r.first
                         /\ frame' = [frame EXCEPT
                                        !.pc = "_sift_up",
                                        !.hole_index = r.hole_index]
                ELSE a' = a /\ frame' = [frame EXCEPT !.pc = "_sift_up"]
           ELSE LET r == _move_up_max_child(a, cmp, Fanout,
                                            hole_index, child_index)
                IN  /\ a' = r.first
                    /\ frame' = [frame EXCEPT !.hole_index = r.hole_index]
    /\ UNCHANGED <<pre, old, op, idx>>
    /\ FixedSteps

\* one turn of the while loop of _sift_up, or, when the loop ends,
\* _move(first[hole_index], item)
SiftUpStep ==
    /\ frame.pc = "_sift_up"
    /\ LET hole_index == frame.hole_index
           parent_index == get_parent_index(hole_index)
       IN  IF hole_index > frame.root_index
           THEN IF less_comparer(cmp, Get(a, parent_index), frame.item)
                THEN /\ a' = _move(a, hole_index, parent_index)
                     /\ frame' = [frame EXCEPT !.hole_index = parent_index]
                ELSE /\ a' = Put(a, hole_index, frame.item)
                     /\ frame' = [frame EXCEPT !.pc = "return",
                                                !.item = Hole]
           ELSE /\ a' = Put(a, hole_index, frame.item)
                /\ frame' = [frame EXCEPT !.pc = "return", !.item = Hole]
    /\ UNCHANGED <<pre, old, op, idx>>
    /\ FixedSteps

\* the return of an operation that has no loop of its own
Return ==
    /\ frame.pc = "return" /\ op \notin {"make_heap", "sort_heap"}
    /\ frame' = Done
    /\ UNCHANGED <<a, pre, old, op, idx>>
    /\ FixedSteps

NextSift ==
    \/ CallMakeHeap
    \/ MakeHeapLoop
    \/ CallPushHeap
    \/ CallPopHeap
    \/ PopHeapMove
    \/ CallSortHeap
    \/ SortHeapLoop
    \/ CallRestoreIncrease
    \/ CallRestoreDecrease
    \/ CallRemoveFromHeap
    \/ RemoveFromHeapMove
    \/ SiftDownStep
    \/ SiftUpStep
    \/ Return

\* long arrays: a single 1 in front or at the end, or every other item 1
LongArrays ==
    {[p \in 1 .. LongLen |-> IF p % m = r THEN 1 ELSE 0] :
        m \in {2, LongLen}, r \in {0, 1}}

\* the callers that are followed step by step: every array up to MaxLen
\* in the flat layouts and in those with pages of two chunks, the long
\* arrays in the layouts with pages of four chunks; operator< and a
\* comparer with items of equal rank
InitSift ==
    /\ Layout
    /\ cmp \in {c \in Comparers : c.kind \in {"less", "key_less"}}
    /\ a \in IF PageChunks = 4 THEN LongArrays ELSE Arrays
    /\ pre = a /\ old = a /\ op = "init" /\ idx = 0
    /\ NoQueue /\ NoMerge /\ NoCall

SpecSift == InitSift /\ [][NextSift]_vars

----------------------------------------------------------------------------
(* nway_merge step by step: a step is the call up to the loop, or one turn *)
(* of the while (true) loop; frame.last is last - first.                   *)

FixedLoop == UNCHANGED <<Fanout, PageChunks, cmp, a, pre, old, idx,
                         queue, popped, refPopped, inputs, ret, viaPop,
        compared>>

\* nway_merge up to the loop: make_heap of the descriptors
CallNwayMerge ==
    /\ NotCalled
    /\ Len(ranges) > 0
    /\ ranges' = make_heap(ranges, _nway_merge_less_comparer(cmp),
                           Len(ranges))
    /\ ranges0' = ranges /\ result' = <<>>
    /\ op' = "nway_merge"
    /\ frame' = [Idle EXCEPT !.pc = "nway_merge", !.last = Len(ranges)]
    /\ FixedLoop

\* one turn of the loop of nway_merge
NwayMergeStep ==
    /\ frame.pc = "nway_merge"
    /\ LET less == _nway_merge_less_comparer(cmp)
           input_range == Get(ranges, 0)
           advanced == [input_range EXCEPT
                           !.first = Advance(input_range.first)]
           first1 == Put(ranges, 0, advanced)
           last1 == frame.last - 1
       IN  /\ input_range.first # input_range.second
           /\ result' = Append(result, Deref(input_range.first))
           /\ IF advanced.first = advanced.second
              THEN IF last1 = 0
                   THEN ranges' = first1 /\ frame' = Done
                   ELSE /\ ranges' = restore_heap_after_item_decrease(
                                         Swap(first1, 0, last1), less,
                                         0, last1)
                        /\ frame' = [frame EXCEPT !.last = last1]
              ELSE /\ ranges' = restore_heap_after_item_decrease(
                                    first1, less, 0, frame.last)
                   /\ frame' = frame
    /\ UNCHANGED <<op, ranges0>>
    /\ FixedLoop

NextLoop == CallNwayMerge \/ NwayMergeStep

SpecLoop == InitMerge /\ [][NextLoop]_vars

----------------------------------------------------------------------------
(* Every operation from its call to its return.  The thread that made the  *)
(* call is not held up: a step that can be taken is taken in the end.      *)

\* the arrays of the heap operations that are followed to their return
RunArrays == UNION {[1 .. n -> Val] : n \in 0 .. MaxRunLen} \cup LongArrays

InitRunHeap ==
    /\ Layout
    /\ cmp \in {c \in Comparers : c.kind \in {"less", "key_less"}}
    /\ a \in RunArrays
    /\ pre = a /\ old = a /\ op = "init" /\ idx = 0
    /\ NoQueue /\ NoMerge /\ NoCall

\* the input ranges of the merges that are followed to their return
InitRunMerge ==
    /\ Layout
    /\ cmp \in {c \in Comparers : c.kind \in {"less", "key_less"}}
    /\ inputs \in MergeInputs(cmp, MaxRunLen) \ {<<>>}
    /\ ranges = [r \in 1 .. Len(inputs) |-> WholeRange(r)]
    /\ ranges0 = ranges /\ result = <<>>
    /\ a = <<>> /\ pre = <<>> /\ old = <<>> /\ op = "init" /\ idx = 0
    /\ NoQueue /\ NoCall

InitRun == InitRunHeap \/ InitRunMerge

NextRun == NextSift \/ NextLoop

SpecRun == InitRun /\ [][NextRun]_vars /\ WF_vars(NextRun)

----------------------------------------------------------------------------
(* The indexes the sift engine walks through, for heaps of every size the  *)
(* index type can hold.  The items only decide which child of a group is   *)
(* moved up and whether _sift_up goes on, so both are inputs of a step;    *)
(* a failed assert ends the call with frame.pc = "abort".                  *)

Abort == [frame EXCEPT !.pc = "abort"]

\* the call _sift_up(first, less_comparer, root_index, hole_index, item)
\* at the end of _sift_down: _sift_up has no heap_size
SiftUp(hole_index) ==
    Running("_sift_up", frame.root_index, hole_index, 0, Hole, 0)

FixedWalk == UNCHANGED <<Fanout, PageChunks, cmp, a, pre, old,
                         queue, popped, refPopped,
                         inputs, ranges, ranges0, result, ret, viaPop,
        compared>>

InitWalk ==
    /\ Layout
    /\ cmp = [kind |-> "less"]
    /\ a = <<>> /\ pre = a /\ old = a /\ op = "init" /\ idx = 0
    /\ NoQueue /\ NoMerge /\ NoCall

\* the call _sift_down(first, less_comparer, heap_size, hole_index, item)
\* down to const size_t root_index = hole_index
CallSiftDown ==
    /\ NotCalled
    /\ \E heap_size \in 1 .. SIZE_MAX : \E hole_index \in 0 .. heap_size - 1 :
        /\ op' = "_sift_down" /\ idx' = hole_index
        /\ frame' = IF heap_size > 0 /\ hole_index < heap_size
                    THEN Running("_sift_down", hole_index, hole_index,
                                 heap_size, Hole, 0)
                    ELSE [Idle EXCEPT !.pc = "abort"]
    /\ FixedWalk

\* faulty variant of SiftDownTurn: remaining_items is heap_size % Fanout
SiftDownTurnWrongRemainder ==
    /\ frame.pc = "_sift_down"
    /\ LET heap_size == frame.heap_size
           hole_index == frame.hole_index
           remaining_items == heap_size % Fanout
           child_index == get_child_index(hole_index)
       IN  IF child_index >= Wrap(heap_size - remaining_items)
           THEN IF child_index < heap_size
                THEN IF heap_size - child_index = remaining_items
                     THEN \E j \in 0 .. remaining_items - 1 :
                            frame' = SiftUp(child_index + j)
                     ELSE frame' = Abort
                ELSE frame' = SiftUp(hole_index)
           ELSE IF heap_size - child_index >= Fanout
                THEN \E j \in 0 .. Fanout - 1 :
                       frame' = [frame EXCEPT !.hole_index = child_index + j]
                ELSE frame' = Abort
    /\ UNCHANGED <<op, idx>>
    /\ FixedWalk

\* one turn of the while (true) loop of _sift_down with its two asserts;
\* j is the child _move_up_max_child finds to be the greatest; when the
\* loop ends, _sift_up is called with the root_index of _sift_down
SiftDownTurn ==
    /\ frame.pc = "_sift_down"
    /\ LET heap_size == frame.heap_size
           hole_index == frame.hole_index
           remaining_items == (heap_size - 1) % Fanout
           child_index == get_child_index(hole_index)
       IN  IF child_index >= Wrap(heap_size - remaining_items)
           THEN IF child_index < heap_size
                THEN IF heap_size - child_index = remaining_items
                     THEN \E j \in 0 .. remaining_items - 1 :
                            frame' = SiftUp(child_index + j)
                     ELSE frame' = Abort
                ELSE frame' = SiftUp(hole_index)
           ELSE IF heap_size - child_index >= Fanout
                THEN \E j \in 0 .. Fanout - 1 :
                       frame' = [frame EXCEPT !.hole_index = child_index + j]
                ELSE frame' = Abort
    /\ UNCHANGED <<op, idx>>
    /\ FixedWalk

\* the assert on entry of _sift_up and one turn of its while loop with
\* the assert on parent_index; goes_on is less_comparer(parent, item)
SiftUpTurn ==
    /\ frame.pc = "_sift_up"
    /\ LET root_index == frame.root_index
           hole_index == frame.hole_index
       IN  IF ~(hole_index >= root_index)
           THEN frame' = Abort
           ELSE IF hole_index > root_index
           THEN LET parent_index == get_parent_index(hole_index)
                IN  IF ~(parent_index >= root_index)
                    THEN frame' = Abort
                    ELSE \E goes_on \in BOOLEAN :
                           frame' = IF goes_on
                                    THEN [frame EXCEPT
                                             !.hole_index = parent_index]
                                    ELSE Done
           ELSE frame' = Done
    /\ UNCHANGED <<op, idx>>
    /\ FixedWalk

NextWalk == CallSiftDown \/ SiftDownTurn \/ SiftUpTurn

SpecWalk == InitWalk /\ [][NextWalk]_vars

----------------------------------------------------------------------------
(* nway_merge with the asserts of its comparer.  The sift engine is gone   *)
(* through once more for the array of descriptors, with every call of the  *)
(* comparer noted in calls and with ok = FALSE from the call on whose      *)
(* assert fails; a failed assert ends nway_merge with frame.pc = "abort".  *)

\* the two asserts of _nway_merge_less_comparer::operator()
operands_asserted(input_range_a, input_range_b) ==
    /\ input_range_a.first # input_range_a.second
    /\ input_range_b.first # input_range_b.second

Failed(first, calls) ==
    [first |-> first, hole_index |-> 0, calls |-> calls, ok |-> FALSE]

Passed(first, hole_index, calls) ==
    [first |-> first, hole_index |-> hole_index, calls |-> calls, ok |-> TRUE]

\* _sift_up of the descriptors
RECURSIVE _sift_up_asserted(_, _, _, _, _, _)
_sift_up_asserted(first, less, root_index, hole_index, item, calls) ==
    IF hole_index > root_index
    THEN LET parent_index == get_parent_index(hole_index)
             parent == Get(first, parent_index)
             called == calls \cup {<<parent, item>>}
         IN  IF ~operands_asserted(parent, item)
             THEN Failed(first, called)
             ELSE IF ~less_comparer(less, parent, item)
             THEN Passed(Put(first, hole_index, item), hole_index, called)
             ELSE _sift_up_asserted(_move(first, hole_index, parent_index),
                                    less, root_index, parent_index, item,
                                    called)
    ELSE Passed(Put(first, hole_index, item), hole_index, calls)

\* the loop of _move_up_max_child over the descriptors; hole_index of the
\* result is j
RECURSIVE max_child_scan_asserted(_, _, _, _, _, _, _)
max_child_scan_asserted(first, less, children_count, child_index, i, j, calls) ==
    IF i < children_count
    THEN LET tmp == Get(first, child_index + i)
             max_child == Get(first, child_index + j)
             called == calls \cup {<<tmp, max_child>>}
         IN  IF ~operands_asserted(tmp, max_child)
             THEN Failed(first, called)
             ELSE IF ~less_comparer(less, tmp, max_child)
             THEN max_child_scan_asserted(first, less, children_count,
                                          child_index, i + 1, i, called)
             ELSE max_child_scan_asserted(first, less, children_count,
                                          child_index, i + 1, j, called)
    ELSE Passed(first, j, calls)

\* _move_up_max_child of the descriptors
_move_up_max_child_asserted(first, less, children_count, hole_index, child_index, calls) ==
    LET s == max_child_scan_asserted(first, less, children_count,
                                     child_index, 1, 0, calls)
    IN  IF s.ok
        THEN Passed(_move(first, hole_index, child_index + s.hole_index),
                    child_index + s.hole_index, s.calls)
        ELSE s

\* the while (true) loop of _sift_down of the descriptors
RECURSIVE sift_down_loop_asserted(_, _, _, _, _)
sift_down_loop_asserted(first, less, heap_size, hole_index, calls) ==
    LET remaining_items == (heap_size - 1) % Fanout
        child_index == get_child_index(hole_index)
    IN  IF child_index >= Wrap(heap_size - remaining_items)
        THEN IF child_index < heap_size
             THEN _move_up_max_child_asserted(first, less, remaining_items,
                                              hole_index, child_index, calls)
             ELSE Passed(first, hole_index, calls)
        ELSE LET r == _move_up_max_child_asserted(first, less, Fanout,
                                                  hole_index, child_index,
                                                  calls)
             IN  IF r.ok
                 THEN sift_down_loop_asserted(r.first, less, heap_size,
                                              r.hole_index, r.calls)
                 ELSE r

\* _sift_down of the descriptors
_sift_down_asserted(first, less, heap_size, hole_index, item, calls) ==
    LET root_index == hole_index
        r == sift_down_loop_asserted(first, less, heap_size, hole_index,
                                     calls)
    IN  IF r.ok
        THEN _sift_up_asserted(r.first, less, root_index, r.hole_index, item,
                               r.calls)
        ELSE r

\* the do ... while (i-- > 0) loop of make_heap of the descriptors
RECURSIVE make_heap_loop_asserted(_, _, _, _, _)
make_heap_loop_asserted(first, less, heap_size, i, calls) ==
    LET item == Get(first, i)
        f == _sift_down_asserted(Put(first, i, Hole), less, heap_size, i,
                                 item, calls)
    IN  IF f.ok /\ i > 0
        THEN make_heap_loop_asserted(f.first, less, heap_size, i - 1,
                                     f.calls)
        ELSE f

\* make_heap(first, last, less) of nway_merge
make_heap_asserted(first, less, heap_size) ==
    IF heap_size > 1
    THEN make_heap_loop_asserted(first, less, heap_size,
                                 IF PageChunks = 1
                                 THEN (heap_size - 2) \div Fanout
                                 ELSE heap_size - 2, {})
    ELSE Passed(first, 0, {})

\* restore_heap_after_item_decrease(first, first, last, less) of nway_merge
restore_heap_after_item_decrease_asserted(first, less, hole_index, heap_size) ==
    LET tmp == Get(first, hole_index)
    IN  _sift_down_asserted(Put(first, hole_index, Hole), less, heap_size,
                            hole_index, tmp, {})

FixedComparer == UNCHANGED <<Fanout, PageChunks, cmp, a, pre, old, idx,
                             queue, popped, refPopped, inputs, ret, viaPop>>

\* what a call of the sift engine leaves behind: the descriptors, the
\* calls of the comparer, and the place in nway_merge
Leaves(r, last) ==
    /\ ranges' = r.first
    /\ compared' = r.calls
    /\ frame' = IF r.ok
                THEN [Idle EXCEPT !.pc = "nway_merge", !.last = last]
                ELSE [Idle EXCEPT !.pc = "abort", !.last = last]

\* nway_merge up to the loop
CallNwayMergeAsserted ==
    /\ NotCalled
    /\ Len(ranges) > 0
    /\ Leaves(make_heap_asserted(ranges, _nway_merge_less_comparer(cmp),
                                 Len(ranges)), Len(ranges))
    /\ ranges0' = ranges /\ result' = <<>>
    /\ op' = "nway_merge"
    /\ FixedComparer

\* faulty variant of NwayMergeTurn: a range that has come to its end is
\* left where it is in the heap
NwayMergeTurnKeepsExhausted ==
    /\ frame.pc = "nway_merge"
    /\ LET less == _nway_merge_less_comparer(cmp)
           input_range == Get(ranges, 0)
           advanced == [input_range EXCEPT
                           !.first = Advance(input_range.first)]
           first1 == Put(ranges, 0, advanced)
           last1 == frame.last - 1
       IN  IF input_range.first = input_range.second
           THEN /\ frame' = Abort /\ compared' = {}
                /\ UNCHANGED <<ranges, result>>
           ELSE /\ result' = Append(result, Deref(input_range.first))
                /\ IF advanced.first = advanced.second /\ last1 = 0
                   THEN /\ ranges' = first1 /\ compared' = {}
                        /\ frame' = Done
                   ELSE Leaves(restore_heap_after_item_decrease_asserted(
                                   first1, less, 0, frame.last), frame.last)
    /\ UNCHANGED <<op, ranges0>>
    /\ FixedComparer

\* one turn of the loop of nway_merge, with the assert at its top
NwayMergeTurn ==
    /\ frame.pc = "nway_merge"
    /\ LET less == _nway_merge_less_comparer(cmp)
           input_range == Get(ranges, 0)
           advanced == [input_range EXCEPT
                           !.first = Advance(input_range.first)]
           first1 == Put(ranges, 0, advanced)
           last1 == frame.last - 1
       IN  IF input_range.first = input_range.second
           THEN /\ frame' = Abort /\ compared' = {}
                /\ UNCHANGED <<ranges, result>>
           ELSE /\ result' = Append(result, Deref(input_range.first))
                /\ IF advanced.first = advanced.second
                   THEN IF last1 = 0
                        THEN /\ ranges' = first1 /\ compared' = {}
                             /\ frame' = Done
                        ELSE Leaves(restore_heap_after_item_decrease_asserted(
                                        Swap(first1, 0, last1), less,
                                        0, last1), last1)
                   ELSE Leaves(restore_heap_after_item_decrease_asserted(
                                   first1, less, 0, frame.last), frame.last)
    /\ UNCHANGED <<op, ranges0>>
    /\ FixedComparer

NextComparer == CallNwayMergeAsserted \/ NwayMergeTurn

SpecComparer == InitMerge /\ [][NextComparer]_vars

----------------------------------------------------------------------------
(* The caller that empties two copies of one heap side by side: a by       *)
(* remove_from_heap of the root, viaPop by pop_heap, both over the first   *)
(* frame.i items, for frame.i from the length down to 1.                   *)

InitDrain ==
    /\ Layout
    /\ cmp \in Comparers
    /\ a \in Arrays
    /\ is_heap(a, cmp, Len(a))
    /\ pre = a /\ old = a /\ op = "init" /\ idx = 0
    /\ NoQueue /\ NoMerge
    /\ ret = <<>> /\ viaPop = a /\ compared = {}
    /\ frame = [Idle EXCEPT !.i = Len(a)]

RemoveRoot ==
    /\ frame.i >= 1
    /\ is_heap(a, cmp, frame.i)
    /\ is_heap(viaPop, cmp, frame.i)
    /\ a' = remove_from_heap(a, cmp, 0, frame.i)
    /\ viaPop' = pop_heap(viaPop, cmp, frame.i)
    /\ frame' = [frame EXCEPT !.i = @ - 1]
    /\ pre' = a /\ op' = "remove_from_heap"
    /\ UNCHANGED <<Fanout, PageChunks, cmp, old, idx, queue, popped,
                   refPopped, inputs, ranges, ranges0, result, ret,
                   compared>>

NextDrain == RemoveRoot

SpecDrain == InitDrain /\ [][NextDrain]_vars

----------------------------------------------------------------------------
(* The caller that asks whether its array is a heap, more than once *)

FixedScan == UNCHANGED <<Fanout, PageChunks, cmp, a, old, idx,
                         queue, popped, refPopped,
                         inputs, ranges, ranges0, result, viaPop,
        compared, frame>>

IsHeapUntil ==
    /\ op \in {"init", "is_heap_until"}
    /\ Len(ret) < MaxCalls
    /\ ret' = Append(ret, is_heap_until(a, cmp, Len(a)))
    /\ pre' = a /\ op' = "is_heap_until"
    /\ FixedScan

IsHeap ==
    /\ op \in {"init", "is_heap"}
    /\ Len(ret) < MaxCalls
    /\ ret' = Append(ret, is_heap(a, cmp, Len(a)))
    /\ pre' = a /\ op' = "is_heap"
    /\ FixedScan

NextScan == IsHeapUntil \/ IsHeap

SpecScan == Init /\ [][NextScan]_vars

----------------------------------------------------------------------------
(* The caller of the index mapper: idx is the index u handed to it, ret    *)
(* the values the calls returned, in the order of the calls.               *)

InitIndex ==
    /\ Layout
    /\ cmp = [kind |-> "less"]
    /\ idx \in 0 .. SIZE_MAX
    /\ a = <<>> /\ pre = <<>> /\ old = <<>> /\ op = "init"
    /\ NoQueue /\ NoMerge /\ NoCall

FixedIndex == UNCHANGED <<Fanout, PageChunks, cmp, a, pre, old, idx,
                          queue, popped, refPopped,
                          inputs, ranges, ranges0, result, viaPop,
        compared, frame>>

GetParentIndex ==
    /\ op = "init"
    /\ idx > 0
    /\ ret' = <<get_parent_index(idx)>>
    /\ op' = "get_parent_index"
    /\ FixedIndex

GetChildIndex ==
    /\ op = "init"
    /\ idx < SIZE_MAX
    /\ ret' = <<get_child_index(idx)>>
    /\ op' = "get_child_index"
    /\ FixedIndex

\* get_child_index(u), then get_parent_index of the k-th child, when there
\* is such an index; ret holds the first child, k and the parent.
ParentOfChild ==
    \E k \in 0 .. Fanout - 1 :
        LET child_index == get_child_index(idx) IN
        /\ op = "init"
        /\ idx < SIZE_MAX
        /\ child_index # SIZE_MAX
        /\ child_index + k <= SIZE_MAX
        /\ ret' = <<child_index, k, get_parent_index(child_index + k)>>
        /\ op' = "get_child_index;get_parent_index"
        /\ FixedIndex

\* get_parent_index(u), then get_child_index of the parent; ret holds the
\* parent and its first child.
ChildOfParent ==
    LET parent_index == get_parent_index(idx) IN
    /\ op = "init"
    /\ idx > 0
    /\ parent_index < SIZE_MAX
    /\ ret' = <<parent_index, get_child_index(parent_index)>>
    /\ op' = "get_parent_index;get_child_index"
    /\ FixedIndex

NextIndex ==
    \/ GetParentIndex
    \/ GetChildIndex
    \/ ParentOfChild
    \/ ChildOfParent

SpecIndex == InitIndex /\ [][NextIndex]_vars

----------------------------------------------------------------------------
(* What the claims are stated with *)

\* the heap property over the first n slots of s, index by index
HeapProperty(s, c, n) ==
    \A u \in 1 .. n - 1 :
        ~less_comparer(c, Get(s, get_parent_index(u)), Get(s, u))

\* how often v occurs in s
Count(s, v) == Cardinality({i \in DOMAIN s : s[i] = v})

\* s and t hold the same items, each as often
SameItems(s, t) ==
    /\ Len(s) = Len(t)
    /\ \A v \in Val : Count(s, v) = Count(t, v)

\* s without its position p
Without(s, p) == SubSeq(s, 1, p - 1) \o SubSeq(s, p + 1, Len(s))

\* no item is followed by one that ranks below it
Ascending(s, c) ==
    \A i \in 1 .. Len(s) - 1 : ~less_comparer(c, s[i + 1], s[i])

\* under these comparers items of equal rank are equal
TotalOrder(c) == c.kind \in {"less", "greater"}

\* x and y rank equal
SameRank(c, x, y) == ~less_comparer(c, x, y) /\ ~less_comparer(c, y, x)

\* reference full sort: insertion sort
RECURSIVE RefInsert(_, _, _)
RefInsert(s, c, x) ==
    IF s = <<>> THEN <<x>>
    ELSE IF less_comparer(c, x, Head(s)) THEN <<x>> \o s
    ELSE <<Head(s)>> \o RefInsert(Tail(s), c, x)

RECURSIVE RefSort(_, _)
RefSort(s, c) ==
    IF s = <<>> THEN <<>>
    ELSE RefInsert(RefSort(SubSeq(s, 1, Len(s) - 1), c), c, s[Len(s)])

\* the parent of u ranks below the item at u
Offends(s, c, u) == less_comparer(c, Get(s, get_parent_index(u)), Get(s, u))

\* the smallest offending index of the first n slots of s, or n
FirstOffender(s, c, n) ==
    IF \E u \in 1 .. n - 1 : Offends(s, c, u)
    THEN CHOOSE u \in 1 .. n - 1 :
            Offends(s, c, u) /\ \A w \in 1 .. u - 1 : ~Offends(s, c, w)
    ELSE n

\* the slots of s whose item has been moved out
Holes(s) == {p \in DOMAIN s : s[p] = Hole}

\* the children of hole_index that lie in the heap of heap_size items
ChildrenPresent(hole_index, heap_size) ==
    LET child_index == get_child_index(hole_index)
    IN  {u \in child_index .. child_index + Fanout - 1 : u < heap_size}

\* the items the descriptor r has not given out yet
Unconsumed(r) == {inputs[r.first[1]][p] : p \in r.first[2] .. r.second[2] - 1}

\* the index of the first child of u0 when indexes are not limited to the
\* width of size_t
ExactChildIndex(u0) ==
    IF PageChunks = 1 THEN u0 * Fanout + 1
    ELSE IF u0 = 0 THEN 1
    ELSE
      LET page_size == Fanout * PageChunks
          u == u0 - 1
          v == (u % page_size) + 1
      IN  IF v < PageChunks
          THEN u + v * (Fanout - 1) + 2
          ELSE
            LET page_leaves == (Fanout - 1) * PageChunks + 1
                v3 == v + ((u \div page_size) + 1) * page_leaves - page_size
            IN  v3 * page_size + 1

\* the paged layout, and index c is the first slot of a page
StartsPage(c) ==
    PageChunks > 1 /\ c > 1 /\ (c - 1) % (Fanout * PageChunks) = 0

----------------------------------------------------------------------------
(* Claims *)

\* C1: when make_heap returns, is_heap is true of the range: no non-root
\* index u has cmp(a[get_parent_index(u)], a[u]); for every input sequence,
\* comparer and layout.
C1_MakeHeapIsHeap ==
    op = "make_heap" =>
        /\ is_heap(a, cmp, Len(a))
        /\ HeapProperty(a, cmp, Len(a))

\* make_heap has rearranged a full-length array that was no heap, in a
\* paged layout whose cross-page index path is taken (index 5 of 2 x 2)
C1_Witness ==
    /\ op = "make_heap"
    /\ Fanout = 2 /\ PageChunks = 2
    /\ Len(a) = MaxLen
    /\ ~is_heap(pre, cmp, Len(pre))
    /\ Get(a, 5) # Get(pre, 5)

\* C2: pop_heap on a heap of size n > 1 leaves the value that was at index 0
\* (a maximum of the range) in slot n-1, a heap over [0, n-1), and in
\* [0, n-1) exactly the other n-1 original values.
C2_PopHeap ==
    (op = "pop_heap" /\ Len(pre) > 1) =>
        LET n == Len(pre) IN
        /\ Len(a) = n
        /\ Get(a, n - 1) = Get(pre, 0)
        /\ \A i \in 0 .. n - 1 : ~less_comparer(cmp, Get(pre, 0), Get(pre, i))
        /\ HeapProperty(a, cmp, n - 1)
        /\ SameItems(SubSeq(a, 1, n - 1), Tail(pre))

\* pop_heap has taken the root of a heap whose last item differs from it
\* and sifted that last item down to a slot below the root
C2_Witness ==
    /\ op = "pop_heap"
    /\ Len(pre) = MaxLen
    /\ Get(pre, 0) # Get(pre, Len(pre) - 1)
    /\ Get(a, 0) # Get(pre, Len(pre) - 1)

\* C3: priority queue simulation, for any interleaving of pushes and pops:
\* every pop yields the value the reference max-priority queue yields, and
\* is_heap holds over the live sequence after every operation (the two
\* queues then hold the same items).
C3_PriorityQueue ==
    /\ op = "pop_heap" => popped = refPopped
    /\ is_heap(a, cmp, Len(a))
    /\ HeapProperty(a, cmp, Len(a))
    /\ \A v \in Val : Count(a, v) = queue[v]

\* a pop from a full queue that held items of different rank, after which
\* the array had to be rearranged
C3_Witness ==
    /\ op = "pop_heap"
    /\ Len(pre) = MaxLen
    /\ \E i \in 1 .. Len(pre) : less_comparer(cmp, pre[i], popped)
    /\ a # SubSeq(pre, 2, Len(pre))
    /\ a # SubSeq(pre, 1, Len(pre) - 1)

\* C4: sort_heap on a heap leaves the same items in ascending order under
\* the comparer; make_heap followed by sort_heap equals a reference full
\* sort of the original sequence, for the natural and the reversed order.
C4_SortHeap ==
    /\ op = "sort_heap" =>
          /\ Ascending(a, cmp)
          /\ SameItems(a, pre)
    /\ op = "make_heap;sort_heap" =>
          /\ Ascending(a, cmp)
          /\ SameItems(a, pre)
          /\ TotalOrder(cmp) => a = RefSort(pre, cmp)

\* make_heap and sort_heap have sorted, under the reversed comparer, a
\* full-length array that was not in order
C4_Witness ==
    /\ op = "make_heap;sort_heap"
    /\ cmp.kind = "greater"
    /\ Len(pre) = MaxLen
    /\ ~Ascending(pre, cmp)
    /\ a # pre

\* C5: remove_from_heap on a heap of size n >= 1 with item index i leaves the
\* value that was at i in slot n-1, a heap over [0, n-1), and in [0, n-1)
\* exactly the other n-1 original values.
C5_RemoveFromHeap ==
    op = "remove_from_heap" =>
        LET n == Len(pre) IN
        /\ Len(a) = n
        /\ Get(a, n - 1) = Get(pre, idx)
        /\ HeapProperty(a, cmp, n - 1)
        /\ SameItems(SubSeq(a, 1, n - 1), Without(pre, idx + 1))

\* remove_from_heap has removed an item that is neither the root nor the
\* last one, and the former last item has moved up past the removed slot
C5_Witness ==
    /\ op = "remove_from_heap"
    /\ idx > 0 /\ idx < Len(pre) - 1
    /\ Get(a, idx) # Get(pre, Len(pre) - 1)
    /\ \E j \in 0 .. idx - 1 : Get(a, j) # Get(pre, j)

\* C6 as stated: if the prefix [first, item) is a heap and the value at item
\* has been decreased, then after restore_heap_after_item_decrease is_heap
\* holds over the full range.
C6_PrefixHeapOnly ==
    op = "restore_heap_after_item_decrease" =>
        /\ is_heap(a, cmp, Len(a))
        /\ HeapProperty(a, cmp, Len(a))

\* C6, amended: if the full range [first, last) was a heap before the value
\* at item was decreased, then after restore_heap_after_item_decrease
\* is_heap holds over the full range.
C6_RestoreDecrease ==
    (op = "restore_heap_after_item_decrease" /\ is_heap(old, cmp, Len(old))) =>
        /\ is_heap(a, cmp, Len(a))
        /\ HeapProperty(a, cmp, Len(a))

\* the key of an inner item of a heap was lowered, which broke the heap,
\* and the restore operation moved the item down
C6_Witness ==
    /\ op = "restore_heap_after_item_decrease"
    /\ is_heap(old, cmp, Len(old))
    /\ ~is_heap(pre, cmp, Len(pre))
    /\ idx > 0
    /\ Get(a, idx) # Get(pre, idx)

\* C7: if the prefix [first, item) is a heap and the value at item has been
\* increased, then after restore_heap_after_item_increase is_heap holds over
\* [first, item + 1), and no slot behind item is modified.
C7_RestoreIncrease ==
    op = "restore_heap_after_item_increase" =>
        /\ is_heap(a, cmp, idx + 1)
        /\ HeapProperty(a, cmp, idx + 1)
        /\ Len(a) = Len(pre)
        /\ \A j \in idx + 1 .. Len(pre) - 1 : Get(a, j) = Get(pre, j)

\* the key of an item with slots behind it was raised above its parent, and
\* the restore operation moved the item up
C7_Witness ==
    /\ op = "restore_heap_after_item_increase"
    /\ idx > 0 /\ idx < Len(pre) - 1
    /\ ~is_heap(pre, cmp, idx + 1)
    /\ Get(a, idx) # Get(pre, idx)

\* C8: a heap over [0, n) in which one key is changed and the matching
\* restore operation is called (with last = n) is again a heap over [0, n)
\* and holds the same items as make_heap of the changed sequence.
C8_RestoreLikeMakeHeap ==
    (/\ op \in {"restore_heap_after_item_increase",
                "restore_heap_after_item_decrease"}
     /\ is_heap(old, cmp, Len(old))) =>
        /\ is_heap(a, cmp, Len(a))
        /\ HeapProperty(a, cmp, Len(a))
        /\ SameItems(a, make_heap(pre, cmp, Len(pre)))

\* a key of a full-length heap was raised, which broke the heap, and the
\* restore operation repaired it
C8_Witness ==
    /\ op = "restore_heap_after_item_increase"
    /\ is_heap(old, cmp, Len(old))
    /\ Len(old) = MaxLen
    /\ ~is_heap(pre, cmp, Len(pre))
    /\ a # pre

\* the second case of C8: a key of a full-length heap was lowered
C8_WitnessDecrease ==
    /\ op = "restore_heap_after_item_decrease"
    /\ is_heap(old, cmp, Len(old))
    /\ Len(old) = MaxLen
    /\ ~is_heap(pre, cmp, Len(pre))
    /\ a # pre

\* all the items of the input ranges, range after range
RECURSIVE Concat(_)
Concat(ss) == IF ss = <<>> THEN <<>> ELSE Head(ss) \o Concat(Tail(ss))

\* C9: nway_merge of k >= 1 non-empty ascending ranges writes exactly the
\* sorted concatenation of the inputs: same length, same items, ascending.
C9_NwayMerge ==
    op = "nway_merge" =>
        /\ SameItems(result, Concat(inputs))
        /\ Ascending(result, cmp)
        /\ TotalOrder(cmp) => result = RefSort(Concat(inputs), cmp)

\* nway_merge has merged three ranges, one of them longer than one item,
\* whose concatenation was not in order
C9_Witness ==
    /\ op = "nway_merge"
    /\ Len(inputs) = 3
    /\ Len(result) = MaxMergeItems
    /\ ~Ascending(Concat(inputs), cmp)

\* C10: when nway_merge returns, every range descriptor has its begin equal
\* to its end, and the descriptors are a permutation of the original ones.
C10_RangesConsumed ==
    op = "nway_merge" =>
        /\ Len(ranges) = Len(ranges0)
        /\ \A k \in 1 .. Len(ranges) : ranges[k].first = ranges[k].second
        /\ \A r \in 1 .. Len(ranges0) :
              Cardinality({k \in 1 .. Len(ranges) :
                              ranges[k].second = ranges0[r].second}) = 1

\* nway_merge has returned with the descriptors in another order than given
C10_Witness ==
    /\ op = "nway_merge"
    /\ Len(ranges) = 3
    /\ \E k \in 1 .. Len(ranges) : ranges[k].second # ranges0[k].second

\* C11: when get_child_index(u) is not the overflow sentinel and the index
\* of the k-th child, get_child_index(u) + k with k < Fanout, fits size_t,
\* get_parent_index of that index is u; in the flat and the paged layout.
C11_IndexBijection ==
    op = "get_child_index;get_parent_index" => ret[3] = idx

\* the last child of a group that starts a page, found back from a parent
\* in the page before
C11_Witness ==
    /\ op = "get_child_index;get_parent_index"
    /\ StartsPage(ret[1])
    /\ ret[2] = Fanout - 1
    /\ idx > 0 /\ ret[3] = idx

\* C12: for every index u with 0 < u < SIZE_MAX, the first child c of the
\* parent of u is not the overflow sentinel and c <= u < c + Fanout: u lies
\* in the child group of its parent.
C12_InChildGroupOfParent ==
    (op = "get_parent_index;get_child_index" /\ idx < SIZE_MAX) =>
        /\ ret[2] # SIZE_MAX
        /\ ret[2] <= idx
        /\ idx < ret[2] + Fanout

\* the largest index, the last of its group, with its parent in the page
\* before
C12_Witness ==
    /\ op = "get_parent_index;get_child_index"
    /\ idx = SIZE_MAX - 1
    /\ StartsPage(ret[2])
    /\ idx = ret[2] + Fanout - 1

\* C13 as stated: for u < SIZE_MAX get_child_index(u) is SIZE_MAX exactly
\* when the exact first-child index is above SIZE_MAX, and is otherwise that
\* index, which differs from the sentinel.
C13_SentinelOnlyAboveMax ==
    op = "get_child_index" =>
        /\ ret[1] = SIZE_MAX <=> ExactChildIndex(idx) > SIZE_MAX
        /\ ExactChildIndex(idx) <= SIZE_MAX =>
              ret[1] = ExactChildIndex(idx) /\ ret[1] # SIZE_MAX

\* C13: for u < SIZE_MAX get_child_index(u) is SIZE_MAX exactly when the
\* exact first-child index is SIZE_MAX or more, and is otherwise that
\* index, which is below SIZE_MAX.
C13_SentinelFromMax ==
    op = "get_child_index" =>
        /\ ret[1] = SIZE_MAX <=> ExactChildIndex(idx) >= SIZE_MAX
        /\ ExactChildIndex(idx) < SIZE_MAX =>
              ret[1] = ExactChildIndex(idx) /\ ret[1] < SIZE_MAX

\* the sentinel for a first child that would start a page beyond SIZE_MAX
C13_Witness ==
    /\ op = "get_child_index"
    /\ StartsPage(ExactChildIndex(idx))
    /\ ExactChildIndex(idx) > SIZE_MAX
    /\ ret[1] = SIZE_MAX

\* C14: is_heap_until returns the smallest index u of [1, heap_size) with
\* cmp(a[get_parent_index(u)], a[u]), or heap_size when there is none;
\* is_heap returns true exactly when that is heap_size; the array is as it
\* was handed over, and a second call returns what the first returned.
C14_IsHeapUntil ==
    op \in {"is_heap_until", "is_heap"} =>
        /\ a = pre
        /\ \A j \in DOMAIN ret :
              ret[j] = IF op = "is_heap_until"
                       THEN FirstOffender(a, cmp, Len(a))
                       ELSE FirstOffender(a, cmp, Len(a)) = Len(a)
        /\ \A j, k \in DOMAIN ret : ret[j] = ret[k]

\* two calls that both return the first slot of the second page, whose
\* parent lies in the first page
C14_Witness ==
    /\ op = "is_heap_until"
    /\ Len(ret) = MaxCalls
    /\ StartsPage(ret[1])
    /\ ret[1] < Len(a)

\* C15 as stated: after every step of emptying a heap by remove_from_heap
\* of index 0 over the shrinking range [0, i), the array holds the same
\* sequence as after the same steps of pop_heap.
C15_SameSequence == op = "remove_from_heap" => a = viaPop

\* C15: the two arrays are the same after every step under a comparer
\* that ranks no two different items equal; under any comparer the items
\* taken out so far rank equal, slot by slot.
C15_SameUpToRank ==
    op = "remove_from_heap" =>
        /\ TotalOrder(cmp) => a = viaPop
        /\ \A p \in frame.i + 1 .. Len(a) : SameRank(cmp, a[p], viaPop[p])

\* a paged heap of the greatest length and of different items, emptied
\* both ways with the same arrays at the end
C15_Witness ==
    /\ op = "remove_from_heap"
    /\ frame.i = 0 /\ Len(a) = MaxLen
    /\ PageChunks > 1 /\ TotalOrder(cmp)
    /\ a[1] # a[Len(a)]
    /\ a = viaPop

\* C16: at every step of make_heap, push_heap, pop_heap, sort_heap, the
\* restore operations and remove_from_heap, one local at most holds an
\* item; while it does, exactly one slot of the array is vacant, and the
\* other slots together with the held item are the items handed over;
\* when nothing is held, and so on return, no slot is vacant and the array
\* is a permutation of the array handed over.
C16_OneHeldOneHole ==
    /\ frame.pc \in {"_sift_down", "_sift_up", "_pop_heap",
                     "remove_from_heap"} <=> frame.item # Hole
    /\ frame.item # Hole =>
          \E p \in DOMAIN a :
              /\ Holes(a) = {p}
              /\ SameItems([a EXCEPT ![p] = frame.item], pre)
    /\ frame.item = Hole => Holes(a) = {} /\ SameItems(a, pre)

\* make_heap under way: the item is held while the hole is at the first
\* slot of the second page
C16_Witness ==
    /\ op = "make_heap"
    /\ frame.pc = "_sift_up"
    /\ frame.item # Hole
    /\ StartsPage(frame.hole_index)
    /\ Holes(a) = {frame.hole_index + 1}

\* C17 as stated: when remove_from_heap has the former last item in its
\* temporary and moves the removed item to the tail slot, it sifts the
\* temporary down from the place of the removed item in the shrunk heap if
\* cmp(tail, temporary), and else sifts it up from there to the root.
C17_SiftDownWhenHigher ==
    [][frame.pc = "remove_from_heap" =>
        LET tail == Get(a', Len(a) - 1)
            temporary == frame.item
        IN  /\ tail = Get(a, idx)
            /\ frame'.hole_index = idx /\ frame'.item = temporary
            /\ IF less_comparer(cmp, tail, temporary)
               THEN /\ frame'.pc = "_sift_down"
                    /\ frame'.heap_size = Len(a) - 1
               ELSE /\ frame'.pc = "_sift_up"
                    /\ frame'.root_index = 0]_vars

\* C17: when remove_from_heap has the former last item in its temporary
\* and moves the removed item to the tail slot, it sifts the temporary
\* down from the place of the removed item in the shrunk heap if
\* cmp(temporary, tail), that is if the temporary ranks below the removed
\* item, and else sifts it up from there toward the root.
C17_SiftDownWhenLower ==
    [][frame.pc = "remove_from_heap" =>
        LET tail == Get(a', Len(a) - 1)
            temporary == frame.item
        IN  /\ tail = Get(a, idx)
            /\ frame'.hole_index = idx /\ frame'.item = temporary
            /\ IF less_comparer(cmp, temporary, tail)
               THEN /\ frame'.pc = "_sift_down"
                    /\ frame'.heap_size = Len(a) - 1
               ELSE /\ frame'.pc = "_sift_up"
                    /\ frame'.root_index = 0]_vars

\* the temporary ranks above the removed item, which was not the root, and
\* _sift_up is about to start at its place
C17_Witness ==
    /\ op = "remove_from_heap"
    /\ frame.pc = "_sift_up"
    /\ frame.root_index = 0 /\ idx > 0 /\ frame.hole_index = idx
    /\ less_comparer(cmp, Get(a, Len(a) - 1), frame.item)

\* C18: a step of _sift_down that moves the hole moves it to a child of
\* the hole that lies in the heap (one of Fanout children, or of the
\* remaining_items children of the last group); no child in the heap
\* ranks above the one moved, every later child in the heap ranks below
\* it, and its item is now in the former hole.
C18_LatestMaxChild ==
    [][(frame.pc = "_sift_down" /\ frame'.hole_index # frame.hole_index) =>
        LET hole_index == frame.hole_index
            moved == frame'.hole_index
            present == ChildrenPresent(hole_index, frame.heap_size)
        IN  /\ moved \in present
            /\ \A u \in present :
                  /\ ~less_comparer(cmp, Get(a, moved), Get(a, u))
                  /\ u > moved => less_comparer(cmp, Get(a, u), Get(a, moved))
            /\ Get(a', hole_index) = Get(a, moved)
            /\ Get(a', moved) = Hole]_vars

\* the hole has just moved to the last of Fanout children, and the first
\* child holds another item of the rank of the one moved
C18_Witness ==
    /\ frame.pc = "_sift_down"
    /\ frame.hole_index > frame.root_index
    /\ LET parent_index == get_parent_index(frame.hole_index)
           child_index == get_child_index(parent_index)
       IN  /\ frame.hole_index = child_index + Fanout - 1
           /\ SameRank(cmp, Get(a, child_index), Get(a, parent_index))
           /\ Get(a, child_index) # Get(a, parent_index)

\* C19: every operation that is called returns: make_heap, push_heap,
\* pop_heap, sort_heap, the restore operations, remove_from_heap and
\* nway_merge, in the flat and the paged layouts.  A turn of the loop of
\* _sift_up that stays in the loop lowers the hole index, a turn of the loop
\* of _sift_down that stays in the loop raises it, a turn of the loop of
\* nway_merge writes one more item, and nway_merge has returned when as many
\* items are written as the input ranges held.
C19_Terminates ==
    /\ [][/\ (frame.pc = "_sift_up" /\ frame'.pc = "_sift_up") =>
                frame'.hole_index < frame.hole_index
          /\ (frame.pc = "_sift_down" /\ frame'.pc = "_sift_down") =>
                frame'.hole_index > frame.hole_index
          /\ frame.pc = "nway_merge" =>
                /\ Len(result') = Len(result) + 1
                /\ frame'.pc = "done" <=>
                      Len(result') = Len(Concat(inputs))]_vars
    /\ (frame.pc \notin {"idle", "done"}) ~> (frame.pc = "done")

\* make_heap of a long array has returned; its first _sift_down started
\* at an index whose first child is beyond SIZE_MAX
C19_Witness ==
    /\ frame.pc = "done"
    /\ op = "make_heap"
    /\ Len(a) = LongLen
    /\ get_child_index(Len(a) - 2) = SIZE_MAX
    /\ a # pre

\* C20: at the start of every turn of the loop of nway_merge the
\* descriptors in [first, last) are not exhausted and are a heap under the
\* reversed comparer, those behind are exhausted, no item not yet given out
\* ranks below the front item of the descriptor at index 0, which does not
\* rank below the item written last; so the items written are ascending.
C20_RootIsSmallest ==
    /\ frame.pc = "nway_merge" =>
          LET less == _nway_merge_less_comparer(cmp)
              front == Deref(Get(ranges, 0).first)
          IN  /\ frame.last \in 1 .. Len(ranges)
              /\ \A j \in 1 .. frame.last :
                    ranges[j].first # ranges[j].second
              /\ \A j \in frame.last + 1 .. Len(ranges) :
                    ranges[j].first = ranges[j].second
              /\ HeapProperty(ranges, less, frame.last)
              /\ \A j \in 1 .. frame.last : \A x \in Unconsumed(ranges[j]) :
                    ~less_comparer(cmp, x, front)
              /\ result # <<>> =>
                    ~less_comparer(cmp, front, result[Len(result)])
    /\ op = "nway_merge" => Ascending(result, cmp)

\* a turn of the loop starts with one range exhausted, two or more left
\* and a front item that differs from the item written last
C20_Witness ==
    /\ frame.pc = "nway_merge"
    /\ frame.last >= 2 /\ frame.last < Len(ranges)
    /\ result # <<>>
    /\ Deref(Get(ranges, 0).first) # result[Len(result)]

\* C21: for every heap_size >= 1, every hole_index < heap_size and every
\* layout, no assert of _sift_down or _sift_up fails: with remaining_items
\* = (heap_size - 1) % Fanout, a first-child index below heap_size -
\* remaining_items has a full group of Fanout children in the heap, one in
\* [heap_size - remaining_items, heap_size) equals heap_size -
\* remaining_items, and in _sift_up the hole and its parent are not below
\* root_index; every first-child index get_child_index returns, that is
\* every value but the overflow value SIZE_MAX, is 1 modulo Fanout.
C21_AssertsHold ==
    /\ frame.pc # "abort"
    /\ frame.pc = "_sift_down" =>
          LET heap_size == frame.heap_size
              remaining_items == (heap_size - 1) % Fanout
              child_index == get_child_index(frame.hole_index)
          IN  /\ heap_size > 0 /\ frame.hole_index < heap_size
              /\ child_index < heap_size - remaining_items =>
                    child_index + Fanout <= heap_size
              /\ (/\ child_index >= heap_size - remaining_items
                  /\ child_index < heap_size) =>
                    child_index = heap_size - remaining_items
              /\ child_index # SIZE_MAX => child_index % Fanout = 1
    /\ frame.pc = "_sift_up" =>
          /\ frame.hole_index >= frame.root_index
          /\ frame.hole_index > frame.root_index =>
                get_parent_index(frame.hole_index) >= frame.root_index

\* in a paged layout _sift_down has gone down from a root_index above 0
\* by two levels or more in a heap with more than 2 ^ (SizeBits - 1)
\* items, and the first child of the hole is the first of the last group,
\* which is not full
C21_Witness ==
    /\ op = "_sift_down" /\ frame.pc = "_sift_down"
    /\ PageChunks > 1
    /\ frame.heap_size > (SIZE_MAX + 1) \div 2
    /\ frame.root_index > 0
    /\ get_parent_index(frame.hole_index) > frame.root_index
    /\ (frame.heap_size - 1) % Fanout > 0
    /\ get_child_index(frame.hole_index) =
          frame.heap_size - ((frame.heap_size - 1) % Fanout)

\* C22: during nway_merge on non-empty input ranges no assert of the
\* comparer and no assert at the top of the loop fails: the comparer is
\* never called with a range that has come to its end, and at the top of
\* every turn the ranges that have come to their end are exactly those
\* behind last, so the range at index 0, whose front item is read, has not.
C22_NoExhaustedRangeUsed ==
    /\ frame.pc # "abort"
    /\ \A called \in compared :
          /\ called[1].first # called[1].second
          /\ called[2].first # called[2].second
    /\ frame.pc = "nway_merge" =>
          /\ frame.last >= 1
          /\ \A j \in 1 .. Len(ranges) :
                ranges[j].first = ranges[j].second <=> j > frame.last

\* a range has come to its end and lies behind last, two ranges or more
\* are left, and the turn just taken called the comparer on two pairs or
\* more of them
C22_Witness ==
    /\ op = "nway_merge" /\ frame.pc = "nway_merge"
    /\ frame.last >= 2 /\ frame.last < Len(ranges)
    /\ result # <<>>
    /\ Cardinality(compared) >= 2

====
